---- MODULE Spec2Model ----
(***************************************************************************)
(* Model of the trackme location-tracking backend (src/app.py, run under   *)
(* gunicorn with src/gunicorn.conf.py).                                    *)
(*                                                                         *)
(* Numbers: every coordinate is kept in tenths of a degree, so 4.5 is 45   *)
(* and 127.0 is 1270.  All inputs the model draws have at most one         *)
(* fractional digit, so the representation is exact for them.              *)
(***************************************************************************)
EXTENDS Integers, Sequences, FiniteSets, TLC

VARIABLES
    uriSet,     \* MONGODB_CONNECTION_STRING is set in the environment
    mongo,      \* state of the MongoDB server: "up", "unreachable", "pingfail"
    phase,      \* per worker process: "boot", "serving", "exited"
    database,   \* per worker: the module-level global `database`
    exitCode,   \* per worker: exit status, <<>> while running
    pc,         \* per worker: position of the request being handled
    req,        \* per worker: the request being handled
    http,       \* per worker: what the geocoding service did for the request
    addr,       \* per worker: address_info of the request
    doc,        \* per worker: location_doc of the request
    resp,       \* per worker: the response of the request
    trace,      \* per worker: the steps the request has executed, in order
    store,      \* the documents of locations_collection, in insertion order
    clock,      \* datetime.utcnow(), in ticks
    vin,        \* arguments of a direct call of is_within_philippines
    vout        \* outcome of that call

vars == <<uriSet, mongo, phase, database, exitCode, pc, req, http, addr, doc,
          resp, trace, store, clock, vin, vout>>

----------------------------------------------------------------------------
(* JSON values as Python objects.  tag: the Python type; n: the numeric    *)
(* value in tenths; s: the characters of a str.                            *)

JNull == [t |-> "null", n |-> 0, s |-> <<>>]
JList == [t |-> "list", n |-> 0, s |-> <<>>]
JBigInt == [t |-> "bigint", n |-> 0, s |-> <<>>]
JNaN == [t |-> "nan", n |-> 0, s |-> <<>>]
JInf == [t |-> "inf", n |-> 0, s |-> <<>>]
JInt(d) == [t |-> "int", n |-> d * 10, s |-> <<>>]
JFloat(tenths) == [t |-> "float", n |-> tenths, s |-> <<>>]
JBool(b) == [t |-> "bool", n |-> IF b THEN 10 ELSE 0, s |-> <<>>]
JStr(chars) == [t |-> "str", n |-> 0, s |-> chars]

(* Python floats: exc is the exception class float() raised ("" if none),  *)
(* k is "fin", "nan", "inf" or "ninf", n the finite value in tenths.       *)
FloatOf(k, n) == [exc |-> "", k |-> k, n |-> n]
FloatRaise(e) == [exc |-> e, k |-> "fin", n |-> 0]

DigitVal ==
    ("0" :> 0) @@ ("1" :> 1) @@ ("2" :> 2) @@ ("3" :> 3) @@ ("4" :> 4) @@
    ("5" :> 5) @@ ("6" :> 6) @@ ("7" :> 7) @@ ("8" :> 8) @@ ("9" :> 9)

AllDigits(s) == \A i \in 1..Len(s) : s[i] \in DOMAIN DigitVal

RECURSIVE DigitsVal(_)
DigitsVal(s) ==
    IF s = <<>> THEN 0
    ELSE DigitsVal(SubSeq(s, 1, Len(s) - 1)) * 10 + DigitVal[s[Len(s)]]

RECURSIVE Strip(_)
Strip(s) ==
    IF s = <<>> THEN s
    ELSE IF s[1] = " " THEN Strip(Tail(s))
    ELSE IF s[Len(s)] = " " THEN Strip(SubSeq(s, 1, Len(s) - 1))
    ELSE s

(* float(str) on an unsigned literal: digits, with an optional point.      *)
ParseUnsigned(s) ==
    LET dots == {i \in 1..Len(s) : s[i] = "."} IN
    IF dots = {}
    THEN IF Len(s) > 0 /\ AllDigits(s)
         THEN FloatOf("fin", DigitsVal(s) * 10)
         ELSE FloatRaise("ValueError")
    ELSE IF Cardinality(dots) > 1 THEN FloatRaise("ValueError")
    ELSE LET i == CHOOSE j \in dots : TRUE
             ip == SubSeq(s, 1, i - 1)
             fp == SubSeq(s, i + 1, Len(s))
         IN IF AllDigits(ip) /\ AllDigits(fp) /\ Len(ip) + Len(fp) > 0
            THEN FloatOf("fin", DigitsVal(ip) * 10
                                 + (IF fp = <<>> THEN 0 ELSE DigitVal[fp[1]]))
            ELSE FloatRaise("ValueError")

Negate(f) ==
    IF f.exc # "" THEN f
    ELSE IF f.k = "inf" THEN FloatOf("ninf", 0)
    ELSE IF f.k = "nan" THEN f
    ELSE FloatOf("fin", 0 - f.n)

ParseSpecial(s) ==
    IF s = <<"n", "a", "n">> THEN FloatOf("nan", 0)
    ELSE IF s = <<"i", "n", "f">> THEN FloatOf("inf", 0)
    ELSE ParseUnsigned(s)

(* float(str): surrounding whitespace is ignored, one sign is allowed.     *)
ParseFloat(chars) ==
    LET s == Strip(chars) IN
    IF s = <<>> THEN FloatRaise("ValueError")
    ELSE IF s[1] = "-" THEN Negate(ParseSpecial(Tail(s)))
    ELSE IF s[1] = "+" THEN ParseSpecial(Tail(s))
    ELSE ParseSpecial(s)

(* The builtin float(x).                                                   *)
PyFloat(x) ==
    CASE x.t \in {"int", "float", "bool"} -> FloatOf("fin", x.n)
      [] x.t = "bigint" -> FloatRaise("OverflowError")
      [] x.t = "nan" -> FloatOf("nan", 0)
      [] x.t = "inf" -> FloatOf("inf", 0)
      [] x.t = "str" -> ParseFloat(x.s)
      [] OTHER -> FloatRaise("TypeError")

(* c <= f and f <= c for a float f and a finite constant c.                *)
FGe(f, c) == f.k = "inf" \/ (f.k = "fin" /\ c <= f.n)
FLe(f, c) == f.k = "ninf" \/ (f.k = "fin" /\ f.n <= c)

----------------------------------------------------------------------------
(* The region validator.                                                   *)

LatMin == 45
LatMax == 215
LonMin == 1160
LonMax == 1270

(* Mutant: the longitude test is left out.                                 *)
InBoxLatOnly(lat, lon) == FGe(lat, LatMin) /\ FLe(lat, LatMax)

InBox(lat, lon) ==
    /\ FGe(lat, LatMin) /\ FLe(lat, LatMax)
    /\ FGe(lon, LonMin) /\ FLe(lon, LonMax)

(* The exception classes the validator's except clause names.              *)
ValidatorCaught == {"ValueError", "TypeError"}

Returned(b) == [called |-> TRUE, raised |-> "", value |-> b]
Raised(e) == [called |-> TRUE, raised |-> e, value |-> FALSE]
NotCalled == [called |-> FALSE, raised |-> "", value |-> FALSE]

ValidatorExcept(e) == IF e \in ValidatorCaught THEN Returned(FALSE) ELSE Raised(e)

is_within_philippines(lat, lon) ==
    LET a == PyFloat(lat) IN
    IF a.exc # "" THEN ValidatorExcept(a.exc)
    ELSE LET b == PyFloat(lon) IN
         IF b.exc # "" THEN ValidatorExcept(b.exc)
         ELSE Returned(InBox(a, b))

----------------------------------------------------------------------------
(* The geocoder client.                                                    *)

Absent == "<absent>"

(* dict.get(key, default) on a mapping whose missing keys hold Absent.     *)
Get(d, key, default) == IF d[key] = Absent THEN default ELSE d[key]

Address(full, city, province, country, postcode) ==
    [full_address |-> full, city |-> city, province |-> province,
     country |-> country, postcode |-> postcode]

(* A dict with the single key full_address.                                *)
Fallback(full) == Address(full, Absent, Absent, Absent, Absent)

NoAddress == Fallback(Absent)

(* What requests.get and response.json() can do: raise, or answer with a   *)
(* status code and a JSON object (display_name and the address components, *)
(* Absent where the key is missing); json = FALSE: the body is not JSON.   *)
HttpReply(status, json, display, city, province, country, postcode) ==
    [raises |-> FALSE, status |-> status, json |-> json,
     display_name |-> display, city |-> city, province |-> province,
     country |-> country, postcode |-> postcode]

NetworkError ==
    [raises |-> TRUE, status |-> 0, json |-> FALSE, display_name |-> Absent,
     city |-> Absent, province |-> Absent, country |-> Absent,
     postcode |-> Absent]

NoReply ==
    [raises |-> FALSE, status |-> 0, json |-> FALSE, display_name |-> Absent,
     city |-> Absent, province |-> Absent, country |-> Absent,
     postcode |-> Absent]

(* Mutant: an exception of the lookup is reported as "not found".          *)
get_address_one_sentinel(r) ==
    IF ~r.raises /\ r.status = 200 /\ r.json /\ r.display_name # Absent
    THEN Address(Get(r, "display_name", "Unknown Location"),
                 Get(r, "city", ""), Get(r, "province", ""),
                 Get(r, "country", ""), Get(r, "postcode", ""))
    ELSE Fallback("Location not found")

get_address_from_coordinates(r) ==
    IF r.raises THEN Fallback("Location lookup failed")
    ELSE IF r.status = 200
    THEN IF ~r.json THEN Fallback("Location lookup failed")
         ELSE IF r.display_name # Absent
         THEN Address(Get(r, "display_name", "Unknown Location"),
                      Get(r, "city", ""), Get(r, "province", ""),
                      Get(r, "country", ""), Get(r, "postcode", ""))
         ELSE Fallback("Location not found")
    ELSE Fallback("Location not found")

----------------------------------------------------------------------------
(* Startup: the module-level code of app.py, run once by every worker.     *)

None == "None"
Db == "location_tracker"
(* The exit status of a worker: none while it runs, <<code>> once exited.  *)
NoExit == <<>>
Exit(code) == <<code>>

(* Mutant: the liveness command is not run.                                *)
get_mongodb_connection_unchecked(uri, server) == IF ~uri THEN None ELSE Db

(* Returns the database handle, or None when the URI is not set or the     *)
(* client or the ismaster command raises.                                  *)
get_mongodb_connection(uri, server) ==
    IF ~uri THEN None
    ELSE IF server # "up" THEN None
    ELSE Db

----------------------------------------------------------------------------
(* Requests and responses.                                                 *)

(* Two of the worker processes gunicorn starts; each runs the module-level *)
(* code and then serves requests, all on the one collection.               *)
Workers == {"w1", "w2"}

MaxRecords == 2
MaxClock == 1

JMissing == [t |-> "missing", n |-> 0, s |-> <<>>]

(* The value request.get_json() returns: a dict (object = TRUE) holding    *)
(* the two keys, JMissing where the key is not in the dict, or something   *)
(* that is not a dict.                                                     *)
Body(lat, lon) == [object |-> TRUE, latitude |-> lat, longitude |-> lon]
NotAnObject == [object |-> FALSE, latitude |-> JMissing, longitude |-> JMissing]

(* dict.get(key) of the body: None for a missing key.                      *)
BodyGet(v) == IF v.t = "missing" THEN JNull ELSE v

Request(route, body) == [route |-> route, body |-> body]
NoRequest == Request("none", NotAnObject)

NoId == ""
NoDoc ==
    [latitude |-> 0, longitude |-> 0, address |-> NoAddress, timestamp |-> 0]

(* A response: the HTTP status and the JSON body (Absent: key not there).  *)
Response(code, status, message, id, address, error, list) ==
    [code |-> code, status |-> status, message |-> message, id |-> id,
     address |-> address, error |-> error, list |-> list]
NoResponse == Response(0, Absent, Absent, NoId, NoAddress, Absent, <<>>)

SaveError(code, message) ==
    Response(code, "error", message, NoId, NoAddress, Absent, <<>>)
SaveSuccess(id, address) ==
    Response(200, "success", "Location saved", id, address, Absent, <<>>)
ErrorBody(code, error) ==
    Response(code, Absent, Absent, NoId, NoAddress, error, <<>>)
ListBody(list) ==
    Response(200, Absent, Absent, NoId, NoAddress, Absent, list)
HtmlPage == Response(200, Absent, Absent, NoId, NoAddress, Absent, <<>>)

(* ObjectIds and str(ObjectId).                                            *)
ObjectId(k) == [oid |-> k]
Str(id) == ToString(id.oid)

(* The driver gives every inserted document an ObjectId no other has.      *)
NewObjectId(docs) ==
    ObjectId(1 + Cardinality({docs[i]._id.oid : i \in 1..Len(docs)}))

StoreUp == mongo = "up"

(* The text of the exception a store operation raises when it fails.       *)
StoreErrorText == "ServerSelectionTimeoutError"

----------------------------------------------------------------------------
(* The locations collection.                                               *)

(* Mutant: the write replaces the newest document instead of adding one.   *)
insert_one_replacing(docs, d) ==
    LET new == [_id |-> NewObjectId(docs), latitude |-> d.latitude,
                longitude |-> d.longitude, address |-> d.address,
                timestamp |-> d.timestamp]
    IN IF docs = <<>> THEN <<new>> ELSE [docs EXCEPT ![Len(docs)] = new]

insert_one(docs, d) ==
    Append(docs, [_id |-> NewObjectId(docs), latitude |-> d.latitude,
                  longitude |-> d.longitude, address |-> d.address,
                  timestamp |-> d.timestamp])

(* sort('timestamp', -1): descending timestamp order.  The server leaves   *)
(* the order of documents with equal timestamps open: ties = TRUE puts the *)
(* later-inserted document first among equals, ties = FALSE the earlier.   *)
RECURSIVE InsertDesc(_, _, _)
InsertDesc(sorted, d, ties) ==
    IF sorted = <<>> THEN <<d>>
    ELSE IF d.timestamp > sorted[1].timestamp
            \/ (ties /\ d.timestamp = sorted[1].timestamp)
    THEN <<d>> \o sorted
    ELSE <<sorted[1]>> \o InsertDesc(Tail(sorted), d, ties)

RECURSIVE SortDesc(_, _)
SortDesc(docs, ties) ==
    IF docs = <<>> THEN <<>>
    ELSE InsertDesc(SortDesc(SubSeq(docs, 1, Len(docs) - 1), ties),
                    docs[Len(docs)], ties)

Limit == 50

Take(docs, k) == SubSeq(docs, 1, IF Len(docs) < k THEN Len(docs) ELSE k)

(* Mutant: the sort is left out.                                           *)
FindRecentUnsorted(docs, ties) == Take(docs, Limit)

(* list(locations_collection.find().sort('timestamp', -1).limit(50))       *)
FindRecent(docs, ties) == Take(SortDesc(docs, ties), Limit)

(* location['_id'] = str(location['_id']) for every location.              *)
Stringify(docs) ==
    [i \in 1..Len(docs) |-> [docs[i] EXCEPT !._id = Str(docs[i]._id)]]

----------------------------------------------------------------------------
(* Initial state: no worker has run the module-level code yet.             *)

ServerStates == {"up", "unreachable", "pingfail"}

InitWorkers ==
    /\ pc = [w \in Workers |-> "idle"]
    /\ req = [w \in Workers |-> NoRequest]
    /\ http = [w \in Workers |-> NoReply]
    /\ addr = [w \in Workers |-> NoAddress]
    /\ doc = [w \in Workers |-> NoDoc]
    /\ resp = [w \in Workers |-> NoResponse]
    /\ trace = [w \in Workers |-> <<>>]

InitValidator ==
    /\ vin = <<JNull, JNull>>
    /\ vout = NotCalled

Init ==
    /\ uriSet \in BOOLEAN
    /\ mongo \in ServerStates
    /\ phase = [w \in Workers |-> "boot"]
    /\ database = [w \in Workers |-> None]
    /\ exitCode = [w \in Workers |-> NoExit]
    /\ InitWorkers
    /\ store = <<>>
    /\ clock = 0
    /\ InitValidator

(* Lines 105-117: connect, and sys.exit(1) when there is no connection.    *)
Startup(w) ==
    /\ phase[w] = "boot"
    /\ LET db == get_mongodb_connection(uriSet, mongo) IN
       IF db = None
       THEN /\ phase' = [phase EXCEPT ![w] = "exited"]
            /\ exitCode' = [exitCode EXCEPT ![w] = Exit(1)]
            /\ UNCHANGED database
       ELSE /\ phase' = [phase EXCEPT ![w] = "serving"]
            /\ database' = [database EXCEPT ![w] = db]
            /\ UNCHANGED exitCode
    /\ UNCHANGED <<uriSet, mongo, pc, req, http, addr, doc, resp, trace, store,
                   clock, vin, vout>>

(* The environment: the server fails or recovers, time passes.             *)
ServerChange(s) ==
    /\ s \in ServerStates \ {mongo}
    /\ mongo' = s
    /\ UNCHANGED <<uriSet, phase, database, exitCode, pc, req, http, addr, doc,
                   resp, trace, store, clock, vin, vout>>

Tick ==
    /\ clock < MaxClock
    /\ clock' = clock + 1
    /\ UNCHANGED <<uriSet, mongo, phase, database, exitCode, pc, req, http, addr,
                   doc, resp, trace, store, vin, vout>>

Idle(w) == phase[w] = "serving" /\ pc[w] = "idle"

(* The handler returns: the response goes out, the worker is free again.   *)
Reply(w, r, steps) ==
    /\ pc' = [pc EXCEPT ![w] = "done"]
    /\ resp' = [resp EXCEPT ![w] = r]
    /\ trace' = [trace EXCEPT ![w] = trace[w] \o steps \o <<"respond">>]

----------------------------------------------------------------------------
(* POST /save_location.  A handler gives up control only where it blocks:  *)
(* in the geocoder's HTTP call and in the insert.  The handler is three    *)
(* steps: up to the geocoder call, from its return to the insert, and from *)
(* the insert's return to the response.                                    *)

Stop(r, steps) == [go |-> FALSE, resp |-> r, steps |-> steps]
Go(steps) == [go |-> TRUE, resp |-> NoResponse, steps |-> steps]

(* Mutant: the validator's verdict is ignored.                             *)
SaveEntryNoValidation(db, body) ==
    IF db = None
    THEN Stop(SaveError(500, "Database connection lost"), <<"check">>)
    ELSE IF ~body.object
    THEN Stop(SaveError(500, "AttributeError"), <<"check">>)
    ELSE Go(<<"check", "validate">>)

(* Lines 130-147: the connection check, the body, the region validator.    *)
SaveEntry(db, body) ==
    IF db = None
    THEN Stop(SaveError(500, "Database connection lost"), <<"check">>)
    ELSE IF ~body.object
    THEN Stop(SaveError(500, "AttributeError"), <<"check">>)
    ELSE LET v == is_within_philippines(BodyGet(body.latitude),
                                        BodyGet(body.longitude))
         IN IF v.raised # ""
            THEN Stop(SaveError(500, v.raised), <<"check", "validate">>)
            ELSE IF ~v.value
            THEN Stop(SaveError(400, "Location outside Philippines"),
                      <<"check", "validate">>)
            ELSE Go(<<"check", "validate">>)

InFlight == {w \in Workers : pc[w] \in {"geocode", "insert"}}

(* cap bounds the documents the model lets the collection grow to.         *)
SaveLocationBegin(w, body, cap) ==
    /\ Idle(w)
    /\ LET e == SaveEntry(database[w], body) IN
       /\ e.go => Len(store) + Cardinality(InFlight) < cap
       /\ req' = [req EXCEPT ![w] = Request("save", body)]
       /\ IF e.go
          THEN /\ pc' = [pc EXCEPT ![w] = "geocode"]
               /\ trace' = [trace EXCEPT ![w] = e.steps]
               /\ UNCHANGED resp
          ELSE Reply(w, e.resp, e.steps)
    /\ UNCHANGED <<uriSet, mongo, phase, database, exitCode, http, addr, doc,
                   store, clock, vin, vout>>

(* Lines 152-158: location_doc.                                            *)
LocationDoc(body, address, now) ==
    LET lat == PyFloat(BodyGet(body.latitude))
        lon == PyFloat(BodyGet(body.longitude))
    IN [exc |-> IF lat.exc # "" THEN lat.exc ELSE lon.exc,
        doc |-> [latitude |-> lat.n, longitude |-> lon.n,
                 address |-> address, timestamp |-> now]]

(* Lines 149-158: the geocoder call returns, the document is built.        *)
SaveLocationGeocode(w, r) ==
    /\ pc[w] = "geocode"
    /\ LET a == get_address_from_coordinates(r)
           d == LocationDoc(req[w].body, a, clock)
       IN /\ http' = [http EXCEPT ![w] = r]
          /\ addr' = [addr EXCEPT ![w] = a]
          /\ IF d.exc # ""
             THEN /\ Reply(w, SaveError(500, d.exc), <<"geocode">>)
                  /\ UNCHANGED doc
             ELSE /\ doc' = [doc EXCEPT ![w] = d.doc]
                  /\ pc' = [pc EXCEPT ![w] = "insert"]
                  /\ trace' = [trace EXCEPT ![w] = trace[w] \o <<"geocode">>]
                  /\ UNCHANGED resp
    /\ UNCHANGED <<uriSet, mongo, phase, database, exitCode, req, store,
                   clock, vin, vout>>

(* Mutant: the handler has no try/except, the exception of a failed insert *)
(* reaches the 500 error handler.                                          *)
SaveLocationInsertUncaught(w) ==
    /\ pc[w] = "insert"
    /\ IF StoreUp
       THEN /\ store' = Append(store, [_id |-> NewObjectId(store),
                                       latitude |-> doc[w].latitude,
                                       longitude |-> doc[w].longitude,
                                       address |-> doc[w].address,
                                       timestamp |-> doc[w].timestamp])
            /\ Reply(w, SaveSuccess(Str(NewObjectId(store)), addr[w]),
                     <<"insert">>)
       ELSE /\ Reply(w, ErrorBody(500, "Internal server error"), <<"insert">>)
            /\ UNCHANGED store
    /\ UNCHANGED <<uriSet, mongo, phase, database, exitCode, req, http, addr,
                   doc, clock, vin, vout>>

(* Lines 160-176: insert_one, then the success response; the exception of  *)
(* a failed insert is caught at line 171.                                  *)
SaveLocationInsert(w) ==
    /\ pc[w] = "insert"
    /\ IF StoreUp
       THEN /\ store' = insert_one(store, doc[w])
            /\ Reply(w, SaveSuccess(Str(NewObjectId(store)), addr[w]),
                     <<"insert">>)
       ELSE /\ Reply(w, SaveError(500, StoreErrorText), <<"insert">>)
            /\ UNCHANGED store
    /\ UNCHANGED <<uriSet, mongo, phase, database, exitCode, req, http, addr, doc,
                   clock, vin, vout>>

(* GET /locations, lines 193-202; an exception of the read is not caught   *)
(* in the handler and reaches the 500 error handler, lines 209-211.        *)
GetLocations(w, ties) ==
    /\ Idle(w)
    /\ req' = [req EXCEPT ![w] = Request("list", NotAnObject)]
    /\ IF StoreUp
       THEN Reply(w, ListBody(Stringify(FindRecent(store, ties))), <<"find">>)
       ELSE Reply(w, ErrorBody(500, "Internal server error"), <<"find">>)
    /\ UNCHANGED <<uriSet, mongo, phase, database, exitCode, http, addr, doc,
                   store, clock, vin, vout>>

(* GET /, lines 119-122.                                                   *)
Index(w) ==
    /\ Idle(w)
    /\ req' = [req EXCEPT ![w] = Request("index", NotAnObject)]
    /\ Reply(w, HtmlPage, <<>>)
    /\ UNCHANGED <<uriSet, mongo, phase, database, exitCode, http, addr, doc,
                   store, clock, vin, vout>>

(* Any other route, lines 205-207.                                         *)
NotFound(w) ==
    /\ Idle(w)
    /\ req' = [req EXCEPT ![w] = Request("other", NotAnObject)]
    /\ Reply(w, ErrorBody(404, "Not found"), <<>>)
    /\ UNCHANGED <<uriSet, mongo, phase, database, exitCode, http, addr, doc,
                   store, clock, vin, vout>>

(* The response has been sent; the worker takes the next request.          *)
Done(w) ==
    /\ pc[w] = "done"
    /\ pc' = [pc EXCEPT ![w] = "idle"]
    /\ req' = [req EXCEPT ![w] = NoRequest]
    /\ http' = [http EXCEPT ![w] = NoReply]
    /\ addr' = [addr EXCEPT ![w] = NoAddress]
    /\ doc' = [doc EXCEPT ![w] = NoDoc]
    /\ resp' = [resp EXCEPT ![w] = NoResponse]
    /\ trace' = [trace EXCEPT ![w] = <<>>]
    /\ UNCHANGED <<uriSet, mongo, phase, database, exitCode, store, clock,
                   vin, vout>>

----------------------------------------------------------------------------
(* The inputs the model draws.                                             *)

Manila == Body(JFloat(146), JFloat(1210))
ManilaText == Body(JStr(<<"1", "4", ".", "6">>), JStr(<<"1", "2", "1">>))
NewYork == Body(JInt(40), JInt(-74))
Hanoi == Body(JInt(21), JFloat(1058))

SaveBodies ==
    {Manila, ManilaText, NewYork, Hanoi,
     Body(JMissing, JFloat(1210)), Body(JFloat(146), JNull),
     Body(JStr(<<"a", "b", "c">>), JFloat(1210)),
     Body(JBigInt, JFloat(1210)), NotAnObject}

GeoReplies ==
    {NetworkError,
     HttpReply(200, FALSE, Absent, Absent, Absent, Absent, Absent),
     HttpReply(503, TRUE, Absent, Absent, Absent, Absent, Absent),
     HttpReply(200, TRUE, Absent, Absent, Absent, Absent, Absent),
     HttpReply(200, TRUE, "Manila", "Manila", Absent, "Philippines", "1000")}

Next ==
    \/ \E w \in Workers : Startup(w)
    \/ \E s \in ServerStates : ServerChange(s)
    \/ \E w \in Workers, b \in SaveBodies : SaveLocationBegin(w, b, MaxRecords)
    \/ \E w \in Workers, h \in GeoReplies : SaveLocationGeocode(w, h)
    \/ \E w \in Workers : SaveLocationInsert(w)
    \/ \E w \in Workers, ties \in BOOLEAN : GetLocations(w, ties)
    \/ \E w \in Workers : Index(w)
    \/ \E w \in Workers : NotFound(w)
    \/ \E w \in Workers : Done(w)

(* Two workers serving every route; all documents are built at one clock   *)
(* reading.                                                                *)
Spec == Init /\ [][Next]_vars

----------------------------------------------------------------------------
(* The history: the collection already holds PreSaves documents, saved one *)
(* after the other at clock 0, more are saved while the clock advances,    *)
(* and GET /locations reads them.                                          *)

PreSaves == 49

RECURSIVE Saved(_)
Saved(k) ==
    IF k = 0 THEN <<>>
    ELSE insert_one(Saved(k - 1),
                    LocationDoc(Manila, Fallback("Location not found"), 0).doc)

InitList ==
    /\ uriSet = TRUE
    /\ mongo = "up"
    /\ phase = [w \in Workers |-> "serving"]
    /\ database = [w \in Workers |-> Db]
    /\ exitCode = [w \in Workers |-> NoExit]
    /\ InitWorkers
    /\ store = Saved(PreSaves)
    /\ clock = 0
    /\ InitValidator

NextList ==
    \/ Tick
    \/ \E w \in Workers : SaveLocationBegin(w, Manila, PreSaves + MaxRecords)
    \/ \E w \in Workers : SaveLocationGeocode(w, NetworkError)
    \/ \E w \in Workers : SaveLocationInsert(w)
    \/ \E w \in Workers, ties \in BOOLEAN : GetLocations(w, ties)
    \/ \E w \in Workers : Done(w)

SpecList == InitList /\ [][NextList]_vars

----------------------------------------------------------------------------
(* Direct calls of the region validator.                                   *)

Text(chars) == JStr(chars)

ValidatorInputs ==
    {JNull, JList, JBigInt, JNaN, JInf, JBool(TRUE),
     Text(<<>>), Text(<<"a">>), Text(<<"4", ".", "5">>),
     Text(<<" ", "2", "1", ".", "5">>), Text(<<"2", "1", ".", "6">>),
     Text(<<"1", "2", "7">>), Text(<<"-", "5">>), Text(<<"1", ".", "2", ".">>),
     JFloat(44), JFloat(45), JFloat(146), JFloat(215), JFloat(216),
     JFloat(1159), JFloat(1160), JFloat(1210), JFloat(1270), JFloat(1271),
     JInt(5), JInt(21), JInt(22), JInt(116), JInt(127), JInt(128), JInt(-74)}

InitCall ==
    /\ uriSet = TRUE
    /\ mongo = "up"
    /\ phase = [w \in Workers |-> "boot"]
    /\ database = [w \in Workers |-> None]
    /\ exitCode = [w \in Workers |-> NoExit]
    /\ InitWorkers
    /\ store = <<>>
    /\ clock = 0
    /\ vin \in ValidatorInputs \X ValidatorInputs
    /\ vout = NotCalled

Call ==
    /\ ~vout.called
    /\ vout' = is_within_philippines(vin[1], vin[2])
    /\ UNCHANGED <<uriSet, mongo, phase, database, exitCode, pc, req, http, addr,
                   doc, resp, trace, store, clock, vin>>

SpecCall == InitCall /\ [][Call]_vars

----------------------------------------------------------------------------
(* Properties.                                                             *)

Has(t, step) == \E i \in 1..Len(t) : t[i] = step

IsSave(w) == req[w].route = "save"

(* A worker leaves step `from` and responds in this step.                  *)
Responds(w, from) == pc[w] = from /\ pc'[w] = "done"

(* C1: is_within_philippines returns true exactly when both arguments      *)
(* convert to numbers with 4.5 <= lat <= 21.5 and 116.0 <= lon <= 127.0,   *)
(* returns false for every argument that does not convert, and never       *)
(* raises.                                                                 *)
C1_InRegion(a, b) ==
    /\ a.exc = "" /\ b.exc = ""
    /\ a.k = "fin" /\ b.k = "fin"
    /\ 45 <= a.n /\ a.n <= 215
    /\ 1160 <= b.n /\ b.n <= 1270

(* C1: the validator never raises and returns true exactly for            *)
(* convertible arguments inside the box.                                   *)
C1_ValidatorContract ==
    vout.called =>
        /\ vout.raised = ""
        /\ vout.value <=> C1_InRegion(PyFloat(vin[1]), PyFloat(vin[2]))

(* C1, on the arguments float() does not answer with OverflowError: the    *)
(* same statement, which the validator does meet.                          *)
C1_ContractWithoutOverflow ==
    (vout.called /\ PyFloat(vin[1]).exc # "OverflowError"
                 /\ (PyFloat(vin[1]).exc = ""
                        => PyFloat(vin[2]).exc # "OverflowError")) =>
        /\ vout.raised = ""
        /\ vout.value <=> C1_InRegion(PyFloat(vin[1]), PyFloat(vin[2]))

(* C2: every stored document lies in the region; a save the validator      *)
(* rejects is answered 400 "Location outside Philippines" and leaves the   *)
(* collection as it was.                                                   *)
StoredInRegion ==
    \A i \in 1..Len(store) :
        /\ 45 <= store[i].latitude /\ store[i].latitude <= 215
        /\ 1160 <= store[i].longitude /\ store[i].longitude <= 1270

Verdict(body) ==
    is_within_philippines(BodyGet(body.latitude), BodyGet(body.longitude))

ValidatorRejects(w, body) ==
    /\ database[w] # None
    /\ body.object
    /\ Verdict(body).raised = ""
    /\ ~Verdict(body).value

OutsideResponse == SaveError(400, "Location outside Philippines")

RejectedAnswered ==
    \A w \in Workers :
        (pc[w] = "done" /\ IsSave(w) /\ ValidatorRejects(w, req[w].body)) =>
            resp[w] = OutsideResponse /\ ~Has(trace[w], "insert")

RejectedKeepsStore ==
    \A w \in Workers :
        (Responds(w, "idle") /\ req'[w].route = "save"
            /\ ValidatorRejects(w, req'[w].body)) => store' = store

(* C2: only in-region documents are stored; a rejected save answers 400    *)
(* and changes nothing.                                                    *)
C2_OnlyRegionStored ==
    [](StoredInRegion /\ RejectedAnswered) /\ [][RejectedKeepsStore]_vars

C2_Witness ==
    \E w \in Workers :
        /\ pc[w] = "done" /\ req[w] = Request("save", NewYork)
        /\ resp[w] = OutsideResponse
        /\ Len(store) > 0

(* C3: the geocoder never aborts a save.  Its call always returns an       *)
(* address: the structured record for status 200 with a display name,      *)
(* 'Location not found' for another status or no display name, 'Location   *)
(* lookup failed' when the request or the parsing raises; with the store   *)
(* available the save then answers 200 and adds one document.              *)
LookupRaises(r) == r.raises \/ (r.status = 200 /\ ~r.json)

AddressAgrees(a, r) ==
    IF LookupRaises(r) THEN a.full_address = "Location lookup failed"
    ELSE IF r.status # 200 \/ r.display_name = Absent
    THEN a.full_address = "Location not found"
    ELSE /\ a.full_address = r.display_name
         /\ a.city = (IF r.city = Absent THEN "" ELSE r.city)
         /\ a.province = (IF r.province = Absent THEN "" ELSE r.province)
         /\ a.country = (IF r.country = Absent THEN "" ELSE r.country)
         /\ a.postcode = (IF r.postcode = Absent THEN "" ELSE r.postcode)

GeocodedAddress ==
    \A w \in Workers :
        (IsSave(w) /\ Has(trace[w], "geocode")) => AddressAgrees(addr[w], http[w])

GeocoderReturns ==
    \A w \in Workers :
        (pc[w] = "geocode" /\ pc'[w] # "geocode") => pc'[w] = "insert"

SavedWhateverAddress ==
    \A w \in Workers :
        (Responds(w, "insert") /\ StoreUp) =>
            /\ resp'[w].code = 200
            /\ resp'[w].address = addr[w]
            /\ Len(store') = Len(store) + 1
            /\ store'[Len(store')].address = addr[w]

(* C3: every geocoder outcome yields the address the claim names, and the  *)
(* save goes on to answer 200 with one document added.                     *)
C3_GeocoderNeverAborts ==
    []GeocodedAddress /\ [][GeocoderReturns /\ SavedWhateverAddress]_vars

C3_Witness ==
    \E w \in Workers :
        /\ pc[w] = "done" /\ IsSave(w) /\ http[w].raises
        /\ resp[w].code = 200
        /\ resp[w].address.full_address = "Location lookup failed"
        /\ \E i \in 1..Len(store) : Str(store[i]._id) = resp[w].id

(* C4: a save that finds the database unavailable answers 500 with the     *)
(* message "Database connection lost".                                     *)
C4_ConnectionLostReported ==
    \A w \in Workers :
        (pc[w] = "done" /\ IsSave(w) /\ Has(trace[w], "insert")
            /\ resp[w].code # 200) =>
            resp[w] = SaveError(500, "Database connection lost")

(* C5: GET /locations over a collection of N documents returns min(N, 50)  *)
(* of them, no document left out has a greater timestamp than one          *)
(* returned, they come in descending timestamp order, and every returned   *)
(* identifier is a string.                                                 *)
Smaller(a, b) == IF a < b THEN a ELSE b

Ids(l) == {l[i]._id : i \in 1..Len(l)}

ListOk(l, docs) ==
    /\ Len(l) = Smaller(Len(docs), 50)
    /\ \A i \in 1..Len(l) : l[i]._id \in STRING
    /\ \A i, j \in 1..Len(l) : i < j => l[i].timestamp >= l[j].timestamp
    /\ \A i, j \in 1..Len(l) : i # j => l[i]._id # l[j]._id
    /\ \A i \in 1..Len(l) :
          \E k \in 1..Len(docs) :
              l[i] = [docs[k] EXCEPT !._id = ToString(docs[k]._id.oid)]
    /\ \A k \in 1..Len(docs) :
          ToString(docs[k]._id.oid) \notin Ids(l) =>
              \A i \in 1..Len(l) : docs[k].timestamp <= l[i].timestamp

ListedRecent ==
    \A w \in Workers :
        (Responds(w, "idle") /\ req'[w].route = "list" /\ resp'[w].code = 200)
            => ListOk(resp'[w].list, store)

(* C5: every successful read returns the min(N, 50) most recent documents, *)
(* newest first, with string identifiers.                                  *)
C5_RecentFifty == [][ListedRecent]_vars

(* More than 50 documents were there to read, the newest-inserted among    *)
(* those returned, and the list is cut to 50 with two timestamps in it.    *)
C5_Witness ==
    \E w \in Workers :
        /\ pc[w] = "done" /\ req[w].route = "list"
        /\ Len(resp[w].list) = 50
        /\ Len(store) > 50
        /\ ToString(store[Len(store)]._id.oid) \in Ids(resp[w].list)
        /\ resp[w].list[1].timestamp > resp[w].list[50].timestamp

(* C6: the collection only grows, by one document per save answered 200;   *)
(* that document has a fresh identifier, the one the response carries, the *)
(* response's address and the request's coordinates; nothing else changes  *)
(* the collection.                                                         *)
UniqueIds ==
    \A i, j \in 1..Len(store) : i # j => store[i]._id # store[j]._id

AppendOnly ==
    /\ Len(store) <= Len(store') /\ Len(store') <= Len(store) + 1
    /\ SubSeq(store', 1, Len(store)) = store

SavedOnce ==
    \A w \in Workers :
        (pc[w] # "done" /\ pc'[w] = "done" /\ req'[w].route = "save"
            /\ resp'[w].code = 200) =>
            /\ Len(store') = Len(store) + 1
            /\ LET r == store'[Len(store')] IN
               /\ ToString(r._id.oid) = resp'[w].id
               /\ \A k \in 1..Len(store) : store[k]._id # r._id
               /\ r.address = resp'[w].address
               /\ r.latitude = PyFloat(BodyGet(req'[w].body.latitude)).n
               /\ r.longitude = PyFloat(BodyGet(req'[w].body.longitude)).n

OnlySavesWrite ==
    store' # store =>
        \E w \in Workers :
            Responds(w, "insert") /\ IsSave(w) /\ resp'[w].code = 200

(* C6: identifiers stay unique and every step is an append of at most one  *)
(* document, made by a save answering 200.                                 *)
C6_AppendOnly ==
    []UniqueIds /\ [][AppendOnly /\ SavedOnce /\ OnlySavesWrite]_vars

C6_Witness ==
    \E w \in Workers :
        /\ pc[w] = "done" /\ IsSave(w) /\ resp[w].code = 200
        /\ Len(store) = 2
        /\ resp[w].id = ToString(store[2]._id.oid)
        /\ store[1]._id # store[2]._id

(* C7: a worker whose startup connection fails (no URI, server             *)
(* unreachable, liveness command failing) exits with a non-zero code and   *)
(* handles no request; only a worker whose connection succeeded serves.    *)
ConnectionFails == ~uriSet \/ mongo # "up"

StartupOutcome ==
    \A w \in Workers :
        (phase[w] = "boot" /\ phase'[w] # "boot") =>
            IF ConnectionFails
            THEN /\ phase'[w] = "exited"
                 /\ exitCode'[w] # NoExit /\ exitCode'[w][1] # 0
            ELSE phase'[w] = "serving" /\ exitCode'[w] = NoExit

ExitedForGood ==
    \A w \in Workers :
        phase[w] = "exited" =>
            phase'[w] = "exited" /\ exitCode'[w] = exitCode[w]

ServesOnlyConnected ==
    \A w \in Workers :
        /\ (pc[w] # "idle" \/ trace[w] # <<>> \/ resp[w] # NoResponse)
              => phase[w] = "serving"
        /\ phase[w] = "serving" => uriSet /\ database[w] # None
        /\ phase[w] = "exited" => exitCode[w] # NoExit /\ exitCode[w][1] # 0

(* C7: a failed startup connection ends the worker with a non-zero exit    *)
(* status; only connected workers serve.                                   *)
C7_StartupAborts ==
    []ServesOnlyConnected /\ [][StartupOutcome /\ ExitedForGood]_vars

C7_Witness ==
    \E v, w \in Workers :
        /\ phase[v] = "exited" /\ exitCode[v] = Exit(1) /\ pc[v] = "idle"
        /\ phase[w] = "serving" /\ pc[w] = "done"

(* C8: with the store unavailable after startup a failing insert answers   *)
(* 500 {status: "error", message: exception text} and stores nothing, a    *)
(* failing read answers 500 with a JSON error body, and the worker goes on *)
(* serving.                                                                *)
InsertFailure ==
    \A w \in Workers :
        (Responds(w, "insert") /\ ~StoreUp) =>
            resp'[w] = SaveError(500, StoreErrorText) /\ store' = store

ReadFailure ==
    \A w \in Workers :
        (Responds(w, "idle") /\ req'[w].route = "list" /\ ~StoreUp) =>
            /\ resp'[w].code = 500 /\ resp'[w].error # Absent
            /\ store' = store

KeepsServing ==
    \A w \in Workers :
        phase[w] = "serving" => phase'[w] = "serving" /\ exitCode'[w] = NoExit

NextRequestTaken ==
    \A w \in Workers :
        (phase[w] = "serving" /\ pc[w] = "done") => ENABLED Done(w)

(* C8: store failures after startup are answered 500 and the worker keeps  *)
(* serving.                                                                *)
C8_StoreFailureReported ==
    []NextRequestTaken /\ [][InsertFailure /\ ReadFailure /\ KeepsServing]_vars

C8_Witness ==
    \E v, w \in Workers :
        /\ pc[v] = "done" /\ IsSave(v)
        /\ resp[v] = SaveError(500, StoreErrorText)
        /\ pc[w] = "done" /\ req[w].route = "list"
        /\ resp[w] = ErrorBody(500, "Internal server error")
        /\ phase[v] = "serving" /\ phase[w] = "serving"

(* C9: a save runs availability check, validation, geocoder call, insert,  *)
(* response in this order, each at most once; the geocoder is called only  *)
(* after the validator accepted, the insert only after the geocoder        *)
(* returned, and a request the check or the validator turned down calls    *)
(* neither.                                                                *)
StepOrder == <<"check", "validate", "geocode", "insert", "respond">>

Position(step) == CHOOSE i \in 1..Len(StepOrder) : StepOrder[i] = step

InOrder(t) ==
    /\ \A i \in 1..Len(t) : Has(StepOrder, t[i])
    /\ \A i, j \in 1..Len(t) : i < j => Position(t[i]) < Position(t[j])

Accepted(w) ==
    /\ database[w] # None
    /\ req[w].body.object
    /\ Verdict(req[w].body) = Returned(TRUE)

(* C9: the steps of every save follow the fixed order.                     *)
C9_StepOrder ==
    \A w \in Workers :
        IsSave(w) =>
            /\ InOrder(trace[w])
            /\ trace[w] # <<>> /\ trace[w][1] = "check"
            /\ Has(trace[w], "geocode") =>
                  Has(trace[w], "validate") /\ Accepted(w)
            /\ Has(trace[w], "insert") => Has(trace[w], "geocode")
            /\ ~Accepted(w) =>
                  ~Has(trace[w], "geocode") /\ ~Has(trace[w], "insert")
            /\ Has(trace[w], "respond") <=> pc[w] = "done"

C9_Witness ==
    \E v, w \in Workers :
        /\ IsSave(v) /\ trace[v] = StepOrder /\ resp[v].code = 200
        /\ IsSave(w) /\ trace[w] = <<"check", "validate", "respond">>
        /\ resp[w].code = 400

(* C10: a save whose body is an object with latitude or longitude missing, *)
(* null or not convertible to a number answers 400 "Location outside       *)
(* Philippines", calls no geocoder and stores nothing.                     *)
Unusable(v) == v.t \in {"missing", "null"} \/ PyFloat(BodyGet(v)).exc # ""

(* C10: an unusable coordinate is answered 400, with no geocoder call and  *)
(* no insert.                                                              *)
C10_UnusableIsOutside ==
    \A w \in Workers :
        (pc[w] = "done" /\ IsSave(w) /\ database[w] # None
            /\ req[w].body.object
            /\ (Unusable(req[w].body.latitude)
                   \/ Unusable(req[w].body.longitude))) =>
            /\ resp[w] = OutsideResponse
            /\ ~Has(trace[w], "geocode") /\ ~Has(trace[w], "insert")

(* C10 without the numbers float() answers with OverflowError: holds.      *)
C10_UnusableWithoutOverflow ==
    \A w \in Workers :
        (pc[w] = "done" /\ IsSave(w) /\ database[w] # None
            /\ req[w].body.object
            /\ Verdict(req[w].body).raised = ""
            /\ (Unusable(req[w].body.latitude)
                   \/ Unusable(req[w].body.longitude))) =>
            /\ resp[w] = OutsideResponse
            /\ ~Has(trace[w], "geocode") /\ ~Has(trace[w], "insert")

====
